---- MODULE Spec2Model ----
(***************************************************************************)
(* One top-to-bottom run of the Streamlit script app.py (a CSV dashboard), *)
(* with the older script test1.2.py as a set of operators so that the two  *)
(* can be compared.  The library calls the scripts make (pandas read_csv,  *)
(* to_datetime, select_dtypes, value_counts, groupby/size/reset_index,     *)
(* Streamlit selectbox/stop, plotly express) are modelled by what they do  *)
(* on the values the model draws (pandas >= 2.0 semantics).                *)
(***************************************************************************)
EXTENDS Integers, Sequences, FiniteSets, TLC

\* ------------------------------------------------------------------ bounds
\* Largest number of data fields (rows times columns) of an uploaded CSV file.
MaxCells == 4

\* Header names of the uploaded files ("count" is the name the scripts give
\* to their derived column).
ColumnNames == {"a", "count"}

\* The field texts of the uploaded files: numbers, dates without and with a
\* UTC offset, and a string that is no date.
NumTexts == {"1", "2"}
IsoText == "2023-01-01"
IsoText2 == "2023-01-02"
IsoTzText == "2023-01-01T00:00:00+00:00"
JunkText == "x"
\* A field that read_csv takes as missing (empty, NA, NaN).
NaText == ""
DateTexts == {IsoText, IsoText2, IsoTzText}
StrTexts == DateTexts \cup {JunkText}

\* ------------------------------------------------------------------ values
None == "<None>"

Range(s) == {s[i] : i \in DOMAIN s}

\* Python's str() as used by the f-strings of the titles.
Str(v) == IF v = None THEN "None" ELSE v

\* A cell of a DataFrame: k is the kind of value, t its text (strings and
\* timestamps), n its number.
NaN == [k |-> "nan", t |-> "", n |-> 0]
NumCell(x) == [k |-> "num", t |-> "", n |-> x]
StrCell(s) == [k |-> "str", t |-> s, n |-> 0]
TsCell(s) == [k |-> "ts", t |-> s, n |-> 0]
TsTzCell(s) == [k |-> "tstz", t |-> s, n |-> 0]

IsNa(c) == c.k = "nan"

\* int("1"), int("2")
NumParse(t) == CASE t = "1" -> 1 [] t = "2" -> 2 [] OTHER -> 0

\* The texts in ascending (lexicographic = chronological) order.
TextOrder == <<"2023-01-01", "2023-01-01T00:00:00+00:00", "2023-01-02",
               "2023-01-03", "x">>
TextRank(t) == IF \E i \in DOMAIN TextOrder : TextOrder[i] = t
               THEN CHOOSE i \in DOMAIN TextOrder : TextOrder[i] = t
               ELSE 0
\* The sort key of a non-missing cell within its column.
KeyRank(c) == IF c.k = "num" THEN c.n ELSE TextRank(c.t)

\* An empty DataFrame; df before pd.read_csv has returned.
NoTable == [columns |-> <<>>, data |-> <<>>, dtype |-> <<>>]

NRows(t) == IF t.columns = <<>> THEN 0 ELSE Len(t.data[t.columns[1]])

\* ------------------------------------------------------------------ pandas
\* pd.read_csv: the dtype of a parsed column.
CsvDtype(texts) ==
    IF Len(texts) = 0 THEN "object"
    ELSE IF \A i \in DOMAIN texts : texts[i] \in NumTexts \cup {NaText}
         THEN IF \E i \in DOMAIN texts : texts[i] = NaText
              THEN "float64" ELSE "int64"
         ELSE "object"

\* pd.read_csv: the values of a parsed column.
CsvCells(texts) ==
    [i \in DOMAIN texts |->
        IF texts[i] = NaText THEN NaN
        ELSE IF CsvDtype(texts) = "object" THEN StrCell(texts[i])
        ELSE NumCell(NumParse(texts[i]))]

\* pd.read_csv(uploaded_file) on a well-formed file.
ReadCsv(file) ==
    [columns |-> file.columns,
     data    |-> [c \in Range(file.columns) |-> CsvCells(file.text[c])],
     dtype   |-> [c \in Range(file.columns) |-> CsvDtype(file.text[c])]]

\* The strings of an object column, in row order.
Present(cells) == SelectSeq(cells, LAMBDA c : ~IsNa(c))

\* pd.to_datetime(series), errors="raise": the format is taken from the first
\* string; a string that is no date, or is of another format, raises.
ToDatetimeOk(cells) ==
    LET p == Present(cells)
    IN  \A i \in DOMAIN p : /\ p[i].k = "str"
                            /\ p[i].t \in DateTexts
                            /\ (p[i].t = IsoTzText) = (p[1].t = IsoTzText)

\* pd.to_datetime(series): the dtype of the result (an offset in the strings
\* gives a timezone-aware column).
ToDatetimeDtype(cells) ==
    LET p == Present(cells)
    IN  IF p # <<>> /\ p[1].t = IsoTzText
        THEN "datetime64[ns, UTC]" ELSE "datetime64[ns]"

\* pd.to_datetime(series): the values of the result (missing becomes NaT).
ToDatetimeCells(cells) ==
    [i \in DOMAIN cells |->
        IF IsNa(cells[i]) THEN NaN
        ELSE IF cells[i].t = IsoTzText THEN TsTzCell(cells[i].t)
        ELSE TsCell(cells[i].t)]

\* DataFrame.select_dtypes: what "number" and "datetime" select.  "datetime"
\* is numpy's datetime64; a timezone-aware column is "datetimetz", not it.
IsNumberDtype(d) == d \in {"int64", "float64"}
IsDatetimeDtype(d) == d = "datetime64[ns]"


\* df.select_dtypes(include="number").columns.tolist()
NumericCols(t) == SelectSeq(t.columns, LAMBDA c : IsNumberDtype(t.dtype[c]))

\* df.select_dtypes(include="datetime").columns.tolist()
DatetimeCols(t) == SelectSeq(t.columns, LAMBDA c : IsDatetimeDtype(t.dtype[c]))

\* A slip: only the numeric columns are excluded.
CategoricalCols_NumberOnly(t) ==
    SelectSeq(t.columns, LAMBDA c : ~IsNumberDtype(t.dtype[c]))

\* df.select_dtypes(exclude=["number", "datetime"]).columns.tolist()
CategoricalCols(t) ==
    SelectSeq(t.columns, LAMBDA c : ~IsNumberDtype(t.dtype[c])
                                    /\ ~IsDatetimeDtype(t.dtype[c]))

\* The distinct non-missing values of a column, in order of first appearance.
RECURSIVE Uniques(_)
Uniques(cells) ==
    IF cells = <<>> THEN <<>>
    ELSE LET r == Uniques(SubSeq(cells, 1, Len(cells) - 1))
             x == cells[Len(cells)]
         IN  IF IsNa(x) \/ x \in Range(r) THEN r ELSE Append(r, x)

CountOf(cells, v) == Cardinality({i \in DOMAIN cells : cells[i] = v})

RemoveAt(s, i) == SubSeq(s, 1, i - 1) \o SubSeq(s, i + 1, Len(s))

\* Series.value_counts(): most frequent first, ties in order of appearance;
\* missing values are not counted.
RECURSIVE ByCountDesc(_, _)
ByCountDesc(u, cells) ==
    IF u = <<>> THEN <<>>
    ELSE LET i == CHOOSE i \in DOMAIN u : \A j \in DOMAIN u :
                     \/ CountOf(cells, u[i]) > CountOf(cells, u[j])
                     \/ CountOf(cells, u[i]) = CountOf(cells, u[j]) /\ i <= j
         IN  <<u[i]>> \o ByCountDesc(RemoveAt(u, i), cells)

\* The group keys of groupby(x): sorted ascending, missing keys dropped
\* (dropna=True is the default).
RECURSIVE SortKeys(_)
SortKeys(S) ==
    IF S = {} THEN <<>>
    ELSE LET m == CHOOSE c \in S : \A d \in S : KeyRank(c) <= KeyRank(d)
         IN  <<m>> \o SortKeys(S \ {m})

\* A two-column frame of keys and their row counts.
CountsTable(keys, cells, name, dtype) ==
    [columns |-> <<name, "count">>,
     data    |-> [c \in {name, "count"} |->
                    IF c = name THEN keys
                    ELSE [i \in DOMAIN keys |-> NumCell(CountOf(cells, keys[i]))]],
     dtype   |-> [c \in {name, "count"} |-> IF c = name THEN dtype ELSE "int64"]]

\* df[cat].value_counts().reset_index() raises "cannot insert count, already
\* exists" when the column itself is named count.
ValueCountsRaises(cat) == cat = "count"

\* counts = df[cat].value_counts().reset_index(); counts.columns = [cat, "count"]
ValueCounts(t, cat) ==
    CountsTable(ByCountDesc(Uniques(t.data[cat]), t.data[cat]),
                t.data[cat], cat, t.dtype[cat])

\* df.groupby(x).size().reset_index(name='count') raises "cannot insert
\* count, already exists" when the grouping column is named count.
GroupSizeRaises(x) == x = "count"

\* grouped = df.groupby(x_axis).size().reset_index(name='count')
GroupSize(t, x) ==
    CountsTable(SortKeys({c \in Range(t.data[x]) : ~IsNa(c)}),
                t.data[x], x, t.dtype[x])

\* A plotly express figure: the call and its arguments.
Fig(kind, data, x, y, title) ==
    [kind |-> kind, data |-> data, x |-> x, y |-> y, title |-> title]

\* st.selectbox(label, options): any of the options; None when there is none.
Selectbox(options) == IF options = <<>> THEN {None} ELSE Range(options)


\* ------------------------------------------------------------------ app.py
VARIABLES pc, uploaded_file, df, numeric_cols, datetime_cols, categorical_cols,
          grid_mode, chart_type, x_axis, agg, y_axis, generate, grouped,
          msgs, preview, autoCharts, customCharts, footer

vars == <<pc, uploaded_file, df, numeric_cols, datetime_cols, categorical_cols,
          grid_mode, chart_type, x_axis, agg, y_axis, generate, grouped,
          msgs, preview, autoCharts, customCharts, footer>>

MsgUpload == "Please upload a CSV to begin."
MsgLoadError == "Error loading file"
MsgNoNumericGrid == "No numeric columns for histograms."
MsgNoCategoricalGrid == "No categorical columns for bar charts."
MsgNoNumeric == "No numeric columns found for histogram."
MsgNoCategorical == "No categorical columns found for bar chart."
MsgCountUnsupported == "Count aggregation only supported for Bar and Scatter charts."
MsgCouldNot == "Could not generate chart: cannot insert count, already exists"
MsgUncaught == "ValueError: cannot insert count, already exists"

ChartTypes == {"Line", "Bar", "Scatter", "Pie"}
AggFunctions == {"None", "Count"}

\* The columns an uploaded file can have: numbers with gaps, or strings with
\* gaps whose dates are all written in one format.
ColumnTexts(n) ==
    [1..n -> NumTexts \cup {NaText}]
    \cup {s \in [1..n -> StrTexts \cup {NaText}] :
            /\ \E i \in 1..n : s[i] # NaText
            /\ ~(IsoTzText \in Range(s) /\ Range(s) \cap {IsoText, IsoText2} # {})}

\* The header rows: the names are distinct (read_csv renames duplicates).
Headers ==
    {h \in UNION {[1..k -> ColumnNames] : k \in 1..Cardinality(ColumnNames)} :
        \A i, j \in DOMAIN h : i # j => h[i] # h[j]}

NoFile == [present |-> FALSE, readable |-> FALSE, columns |-> <<>>, text |-> <<>>]

Uploads ==
    {NoFile} \cup
    UNION {UNION {{[present |-> TRUE, readable |-> r, columns |-> h, text |-> d] :
                        r \in BOOLEAN, d \in [Range(h) -> ColumnTexts(n)]} :
                  n \in 0..(MaxCells \div Len(h))} :
           h \in Headers}

Init ==
    /\ uploaded_file \in Uploads
    /\ pc = "upload"
    /\ df = NoTable
    /\ numeric_cols = <<>>
    /\ datetime_cols = <<>>
    /\ categorical_cols = <<>>
    /\ grid_mode = FALSE
    /\ chart_type = "Line"
    /\ x_axis = None
    /\ agg = "None"
    /\ y_axis = None
    /\ generate = FALSE
    /\ grouped = NoTable
    /\ msgs = <<>>
    /\ preview = FALSE
    /\ autoCharts = <<>>
    /\ customCharts = <<>>
    /\ footer = FALSE

\* app.py 15-23: no file yet: a hint in the sidebar and st.stop().
Upload ==
    /\ pc = "upload"
    /\ IF uploaded_file.present
       THEN pc' = "read" /\ msgs' = msgs
       ELSE pc' = "stopped" /\ msgs' = Append(msgs, MsgUpload)
    /\ UNCHANGED <<uploaded_file, df, numeric_cols, datetime_cols,
                   categorical_cols, grid_mode, chart_type, x_axis, agg,
                   y_axis, generate, grouped, preview, autoCharts,
                   customCharts, footer>>

\* A slip: the except branch reports and falls through.
AfterLoadError_FallThrough == "preview"

\* app.py 28-30: st.error(...) is followed by st.stop().
AfterLoadError == "stopped"

\* app.py 25-30: df = pd.read_csv(uploaded_file), or the load error.
ReadCSV ==
    /\ pc = "read"
    /\ IF uploaded_file.readable
       THEN /\ df' = ReadCsv(uploaded_file)
            /\ msgs' = msgs
            /\ pc' = "preview"
       ELSE /\ df' = df
            /\ msgs' = Append(msgs, MsgLoadError)
            /\ pc' = AfterLoadError
    /\ UNCHANGED <<uploaded_file, numeric_cols, datetime_cols,
                   categorical_cols, grid_mode, chart_type, x_axis, agg,
                   y_axis, generate, grouped, preview, autoCharts,
                   customCharts, footer>>

\* app.py 32-34: st.dataframe(df).
Preview ==
    /\ pc = "preview"
    /\ preview' = TRUE
    /\ pc' = "infer"
    /\ UNCHANGED <<uploaded_file, df, numeric_cols, datetime_cols,
                   categorical_cols, grid_mode, chart_type, x_axis, agg,
                   y_axis, generate, grouped, msgs, autoCharts,
                   customCharts, footer>>

\* app.py 37-42: every object column is handed to pd.to_datetime; a column
\* on which it raises is left as it is.
InferTypes(t) ==
    [columns |-> t.columns,
     data    |-> [c \in Range(t.columns) |->
                    IF t.dtype[c] = "object" /\ ToDatetimeOk(t.data[c])
                    THEN ToDatetimeCells(t.data[c]) ELSE t.data[c]],
     dtype   |-> [c \in Range(t.columns) |->
                    IF t.dtype[c] = "object" /\ ToDatetimeOk(t.data[c])
                    THEN ToDatetimeDtype(t.data[c]) ELSE t.dtype[c]]]

\* app.py 36-46: type inference and the three column lists.
Infer ==
    /\ pc = "infer"
    /\ df' = InferTypes(df)
    /\ numeric_cols' = NumericCols(df')
    /\ datetime_cols' = DatetimeCols(df')
    /\ categorical_cols' = CategoricalCols(df')
    /\ pc' = "options"
    /\ UNCHANGED <<uploaded_file, grid_mode, chart_type, x_axis, agg, y_axis,
                   generate, grouped, msgs, preview, autoCharts, customCharts,
                   footer>>

\* A slip: the Pie values are offered from every column.
YOptions_AllColumns(ct, ag, numeric, columns) ==
    IF ct = "Pie" THEN columns
    ELSE IF ag = "None" THEN (IF numeric # <<>> THEN numeric ELSE columns)
    ELSE <<>>

\* app.py 66-79: what the y selector offers (nothing: y_axis is None).
YOptions(ct, ag, numeric, columns) ==
    IF ct = "Pie" THEN numeric
    ELSE IF ag = "None" THEN (IF numeric # <<>> THEN numeric ELSE columns)
    ELSE <<>>

\* app.py 48-79: the sidebar widgets, with whatever the user has selected.
Options ==
    /\ pc = "options"
    /\ grid_mode' \in BOOLEAN
    /\ chart_type' \in ChartTypes
    /\ x_axis' \in Selectbox(df.columns)
    /\ agg' \in AggFunctions
    /\ y_axis' \in Selectbox(YOptions(chart_type', agg', numeric_cols, df.columns))
    /\ pc' = "auto"
    /\ UNCHANGED <<uploaded_file, df, numeric_cols, datetime_cols,
                   categorical_cols, generate, grouped, msgs, preview,
                   autoCharts, customCharts, footer>>


\* app.py 89-94, 121-126: px.histogram(df, x=num, title=..., marginal="box")
Histogram(t, num) == Fig("histogram", t, num, None, <<"Distribution of ", num>>)

\* app.py 103-110, 133-140: px.bar(counts, x=cat, y="count", title=...)
CountsBar(t, cat) ==
    Fig("bar", ValueCounts(t, cat), cat, "count", <<"Counts of ", cat>>)

\* The bar charts of a loop over cats up to the column whose value counts
\* raise.
RECURSIVE CountsBars(_, _)
CountsBars(t, cats) ==
    IF cats = <<>> \/ ValueCountsRaises(Head(cats)) THEN <<>>
    ELSE <<CountsBar(t, Head(cats))>> \o CountsBars(t, Tail(cats))

\* app.py 84-113: grid mode, every numeric and every categorical column.
AutoGrid(t, numeric, categorical) ==
    [charts  |-> [i \in DOMAIN numeric |-> Histogram(t, numeric[i])]
                 \o CountsBars(t, categorical),
     msgs    |-> (IF numeric = <<>> THEN <<MsgNoNumericGrid>> ELSE <<>>)
                 \o (IF categorical = <<>> THEN <<MsgNoCategoricalGrid>> ELSE <<>>),
     raised  |-> \E i \in DOMAIN categorical : ValueCountsRaises(categorical[i])]

\* app.py 115-143: the first numeric and the first categorical column.
AutoDefault(t, numeric, categorical) ==
    [charts  |-> (IF numeric # <<>> THEN <<Histogram(t, numeric[1])>> ELSE <<>>)
                 \o (IF categorical # <<>>
                     THEN CountsBars(t, <<categorical[1]>>) ELSE <<>>),
     msgs    |-> (IF numeric = <<>> THEN <<MsgNoNumeric>> ELSE <<>>)
                 \o (IF categorical = <<>> THEN <<MsgNoCategorical>> ELSE <<>>),
     raised  |-> categorical # <<>> /\ ValueCountsRaises(categorical[1])]

\* app.py 81-143: the auto-generated charts.  Nothing here catches an
\* exception: one that is raised ends the script run.
AutoGeneratedCharts ==
    /\ pc = "auto"
    /\ LET r == IF grid_mode
                THEN AutoGrid(df, numeric_cols, categorical_cols)
                ELSE AutoDefault(df, numeric_cols, categorical_cols)
       IN  /\ autoCharts' = r.charts
           /\ msgs' = msgs \o r.msgs \o (IF r.raised THEN <<MsgUncaught>> ELSE <<>>)
           /\ pc' = IF r.raised THEN "crashed" ELSE "custom"
    /\ UNCHANGED <<uploaded_file, df, numeric_cols, datetime_cols,
                   categorical_cols, grid_mode, chart_type, x_axis, agg,
                   y_axis, generate, grouped, preview, customCharts, footer>>

\* The rows of a frame in reverse order.
ReverseRows(t) ==
    [t EXCEPT !.data = [c \in DOMAIN t.data |->
                          [i \in DOMAIN t.data[c] |->
                              t.data[c][Len(t.data[c]) + 1 - i]]]]

\* The rows of a frame that have a value in column d.
DropMissing(t, d) ==
    LET keep == SelectSeq([i \in 1..NRows(t) |-> i],
                          LAMBDA i : ~IsNa(t.data[d][i]))
    IN  [t EXCEPT !.data = [c \in DOMAIN t.data |->
                              [i \in DOMAIN keep |-> t.data[c][keep[i]]]]]

PxKind(ct) == CASE ct = "Line" -> "line" [] ct = "Bar" -> "bar"
                [] ct = "Scatter" -> "scatter" [] OTHER -> "pie"

CustomTitle(ct, x, y) ==
    IF ct = "Pie" THEN <<ct, " of ", Str(y)>>
    ELSE <<ct, " of ", Str(y), " vs ", x>>

\* A slip: the frame is plotted bottom-up.
CustomFigure_Reversed(ct, t, x, y) ==
    Fig(PxKind(ct), ReverseRows(t), x, y, CustomTitle(ct, x, y))

\* A slip: rows without a value in the first datetime column are filtered
\* out before plotting.
CustomFigure_Filtered(ct, t, x, y) ==
    Fig(PxKind(ct),
        IF DatetimeCols(t) # <<>> THEN DropMissing(t, DatetimeCols(t)[1]) ELSE t,
        x, y, CustomTitle(ct, x, y))

\* app.py 169-180: px.line / px.bar / px.scatter / px.pie on df itself.
\* px.pie takes names=x, values=y; values=None is accepted (the slices
\* count the rows of each name).
CustomFigure(ct, t, x, y) == Fig(PxKind(ct), t, x, y, CustomTitle(ct, x, y))

\* app.py 151-164: px.bar / px.scatter on the grouped counts.
CountFigure(ct, g, x) ==
    Fig(PxKind(ct), g, x, "count", <<"Count of records by ", x>>)

\* app.py 147-184: the body of the try block and its except branch.
CustomTry(ag, ct, t, x, y, g) ==
    IF ag = "Count"
    THEN IF GroupSizeRaises(x)
         THEN [grouped |-> g, charts |-> <<>>, msgs |-> <<MsgCouldNot>>]
         ELSE IF ct \in {"Bar", "Scatter"}
              THEN [grouped |-> GroupSize(t, x),
                    charts  |-> <<CountFigure(ct, GroupSize(t, x), x)>>,
                    msgs    |-> <<>>]
              ELSE [grouped |-> GroupSize(t, x),
                    charts  |-> <<>>,
                    msgs    |-> <<MsgCountUnsupported>>]
    ELSE [grouped |-> g,
          charts  |-> <<CustomFigure(ct, t, x, y)>>,
          msgs    |-> <<>>]

\* app.py 145-184: the Generate Chart button and its handler.
CustomChartBuilder ==
    /\ pc = "custom"
    /\ generate' \in BOOLEAN
    /\ IF generate'
       THEN LET r == CustomTry(agg, chart_type, df, x_axis, y_axis, grouped)
            IN  /\ grouped' = r.grouped
                /\ customCharts' = r.charts
                /\ msgs' = msgs \o r.msgs
       ELSE UNCHANGED <<grouped, customCharts, msgs>>
    /\ pc' = "footer"
    /\ UNCHANGED <<uploaded_file, df, numeric_cols, datetime_cols,
                   categorical_cols, grid_mode, chart_type, x_axis, agg,
                   y_axis, preview, autoCharts, footer>>

\* app.py 186-192: the footer.
Footer ==
    /\ pc = "footer"
    /\ footer' = TRUE
    /\ pc' = "done"
    /\ UNCHANGED <<uploaded_file, df, numeric_cols, datetime_cols,
                   categorical_cols, grid_mode, chart_type, x_axis, agg,
                   y_axis, generate, grouped, msgs, preview, autoCharts,
                   customCharts>>

Next ==
    \/ Upload
    \/ ReadCSV
    \/ Preview
    \/ Infer
    \/ Options
    \/ AutoGeneratedCharts
    \/ CustomChartBuilder
    \/ Footer

Spec == Init /\ [][Next]_vars


\* --------------------------------------------------------------- test1.2.py
\* test1.2.py 38-43: the same loop over the object columns.
T12_InferTypes(t) ==
    [columns |-> t.columns,
     data    |-> [c \in Range(t.columns) |->
                    IF t.dtype[c] = "object" /\ ToDatetimeOk(t.data[c])
                    THEN ToDatetimeCells(t.data[c]) ELSE t.data[c]],
     dtype   |-> [c \in Range(t.columns) |->
                    IF t.dtype[c] = "object" /\ ToDatetimeOk(t.data[c])
                    THEN ToDatetimeDtype(t.data[c]) ELSE t.dtype[c]]]

\* test1.2.py 45-47
T12_NumericCols(t) == SelectSeq(t.columns, LAMBDA c : IsNumberDtype(t.dtype[c]))
T12_DatetimeCols(t) == SelectSeq(t.columns, LAMBDA c : IsDatetimeDtype(t.dtype[c]))
T12_CategoricalCols(t) ==
    SelectSeq(t.columns, LAMBDA c : ~IsNumberDtype(t.dtype[c])
                                    /\ ~IsDatetimeDtype(t.dtype[c]))

\* test1.2.py 49-80: one histogram and one value-count bar chart.
T12_AutoCharts(t, numeric, categorical) ==
    [charts  |-> (IF numeric # <<>>
                  THEN <<Fig("histogram", t, numeric[1], None,
                             <<"Distribution of ", numeric[1]>>)>>
                  ELSE <<>>)
                 \o (IF categorical # <<>> /\ ~ValueCountsRaises(categorical[1])
                     THEN <<Fig("bar", ValueCounts(t, categorical[1]),
                                categorical[1], "count",
                                <<"Counts of ", categorical[1]>>)>>
                     ELSE <<>>),
     msgs    |-> (IF numeric = <<>> THEN <<MsgNoNumeric>> ELSE <<>>)
                 \o (IF categorical = <<>> THEN <<MsgNoCategorical>> ELSE <<>>),
     raised  |-> categorical # <<>> /\ ValueCountsRaises(categorical[1])]

\* test1.2.py 92-102: what the y selector offers.
T12_YOptions(ct, numeric, columns) ==
    IF ct = "Pie" THEN numeric
    ELSE IF numeric # <<>> THEN numeric ELSE columns

\* test1.2.py 104-120: the figure of the Generate Chart handler.
T12_CustomFigure(ct, t, x, y) ==
    CASE ct = "Line"    -> Fig("line", t, x, y, <<ct, " of ", Str(y), " vs ", x>>)
      [] ct = "Bar"     -> Fig("bar", t, x, y, <<ct, " of ", Str(y), " vs ", x>>)
      [] ct = "Scatter" -> Fig("scatter", t, x, y, <<ct, " of ", Str(y), " vs ", x>>)
      [] OTHER          -> Fig("pie", t, x, y, <<ct, " of ", Str(y)>>)

\* test1.2.py 15-128: what one run of the script shows for an upload and a
\* selection of the sidebar.
T12_Run(file, ct, x, y, pressed) ==
    LET t   == T12_InferTypes(ReadCsv(file))
        num == T12_NumericCols(t)
        dat == T12_DatetimeCols(t)
        cat == T12_CategoricalCols(t)
        a   == T12_AutoCharts(t, num, cat)
        halted == [status |-> "stopped", preview |-> FALSE, df |-> NoTable,
                   numeric_cols |-> <<>>, datetime_cols |-> <<>>,
                   categorical_cols |-> <<>>, autoCharts |-> <<>>,
                   customCharts |-> <<>>, footer |-> FALSE, msgs |-> <<>>]
        loaded == [halted EXCEPT !.preview = TRUE, !.df = t,
                                 !.numeric_cols = num, !.datetime_cols = dat,
                                 !.categorical_cols = cat,
                                 !.autoCharts = a.charts]
    IN  IF ~file.present THEN [halted EXCEPT !.msgs = <<MsgUpload>>]
        ELSE IF ~file.readable THEN [halted EXCEPT !.msgs = <<MsgLoadError>>]
        ELSE IF a.raised
             THEN [loaded EXCEPT !.status = "crashed",
                                 !.msgs = a.msgs \o <<MsgUncaught>>]
        ELSE [loaded EXCEPT !.status = "done", !.footer = TRUE, !.msgs = a.msgs,
                            !.customCharts =
                                IF pressed THEN <<T12_CustomFigure(ct, t, x, y)>>
                                ELSE <<>>]


\* ------------------------------------------------------------------ claims
\* The Generate Chart handler has run in this script run.
HandlerRan == pc \in {"footer", "done"} /\ generate

\* The errors the handler reports.
HandlerErrors == {i \in DOMAIN msgs : msgs[i] \in {MsgCountUnsupported, MsgCouldNot}}

\* The uploaded file as read_csv returns it, before type inference.
Raw == ReadCsv(uploaded_file)

\* Type inference has run in this script run.
Inferred == pc \in {"options", "auto", "custom", "footer", "done", "crashed"}

RECURSIVE SumCounts(_)
SumCounts(cells) ==
    IF cells = <<>> THEN 0 ELSE Head(cells).n + SumCounts(Tail(cells))

\* C1: with aggregation Count, Generate on a Line or Pie chart reports an
\* error and renders no custom chart; on a Bar or Scatter chart it renders
\* exactly one custom chart and reports no error, whatever the table and the
\* x column.
C1_CountCompatibility ==
    HandlerRan /\ agg = "Count" =>
        /\ chart_type \in {"Line", "Pie"} =>
                HandlerErrors # {} /\ customCharts = <<>>
        /\ chart_type \in {"Bar", "Scatter"} =>
                HandlerErrors = {} /\ Len(customCharts) = 1

\* C2: Generate on a Pie chart with no values column selected (the table has
\* no numeric column) reports an error and renders no Pie chart.
C2_PieNeedsValues ==
    HandlerRan /\ chart_type = "Pie" /\ y_axis = None =>
        /\ numeric_cols = <<>>
        /\ HandlerErrors # {}
        /\ customCharts = <<>>

\* C3: the Count aggregation has one row per distinct value of x, the rows
\* with a missing x forming one group of their own: as many rows as distinct
\* non-missing values, plus one if a value is missing, and counts that sum to
\* the number of rows of the table.
C3_CountGroups ==
    HandlerRan /\ agg = "Count" /\ grouped # NoTable =>
        /\ NRows(grouped) =
               Cardinality({c \in Range(df.data[x_axis]) : ~IsNa(c)})
               + (IF \E c \in Range(df.data[x_axis]) : IsNa(c) THEN 1 ELSE 0)
        /\ SumCounts(grouped.data["count"]) = NRows(df)

\* Every value of a text column parses as a date/time or is missing.
AllParse(cells) ==
    \A i \in DOMAIN cells : IsNa(cells[i]) \/ cells[i].t \in DateTexts

\* C4: a text column is classified datetime exactly if every value of it
\* parses as a date/time or is missing; a column with a value that does not
\* parse keeps its text values and its categorical class.
C4_AllOrNothing ==
    Inferred =>
        \A c \in Range(df.columns) :
            Raw.dtype[c] = "object" =>
                /\ (c \in Range(datetime_cols)) = AllParse(Raw.data[c])
                /\ ~AllParse(Raw.data[c]) =>
                        /\ df.data[c] = Raw.data[c]
                        /\ c \in Range(categorical_cols)

Occurrences(s, c) == Cardinality({i \in DOMAIN s : s[i] = c})

\* C5: after type inference every column is in exactly one of numeric_cols,
\* datetime_cols and categorical_cols, the lists hold nothing but columns,
\* and a column whose values are all numbers is in numeric_cols.
C5_Partition ==
    Inferred =>
        /\ \A c \in Range(df.columns) :
              Occurrences(numeric_cols, c) + Occurrences(datetime_cols, c)
                + Occurrences(categorical_cols, c) = 1
        /\ Range(numeric_cols) \cup Range(datetime_cols)
             \cup Range(categorical_cols) = Range(df.columns)
        /\ \A c \in Range(df.columns) :
              (/\ uploaded_file.text[c] # <<>>
               /\ \A i \in DOMAIN uploaded_file.text[c] :
                     uploaded_file.text[c][i] \in NumTexts)
              => c \in Range(numeric_cols)

\* A table with a numeric and a datetime column, or a numeric and a
\* categorical one, has been classified.
C5_Witness ==
    /\ pc = "options"
    /\ numeric_cols # <<>>
    /\ datetime_cols # <<>> \/ categorical_cols # <<>>
    /\ NRows(df) > 1

\* C6: when reading the file fails the run reports the load error and halts:
\* no preview, no type inference, no auto-generated chart and no custom
\* chart in that run.
C6_LoadErrorHalts ==
    (\E i \in DOMAIN msgs : msgs[i] = MsgLoadError) =>
        /\ pc = "stopped"
        /\ ~preview
        /\ df = NoTable
        /\ numeric_cols = <<>> /\ datetime_cols = <<>> /\ categorical_cols = <<>>
        /\ autoCharts = <<>>
        /\ customCharts = <<>>
        /\ ~footer
        /\ msgs = <<MsgLoadError>>

\* An unreadable file with data in it has been reported.
C6_Witness ==
    /\ pc = "stopped"
    /\ msgs = <<MsgLoadError>>
    /\ uploaded_file.columns # <<>>
    /\ uploaded_file.text[uploaded_file.columns[1]] # <<>>

\* C7: after a successful load no failure of a later step ends the run: it
\* is shown as a message where it occurs, and a run that has ended has
\* rendered the footer.
C7_DownstreamCaught ==
    uploaded_file.present /\ uploaded_file.readable =>
        /\ \A i \in DOMAIN msgs : msgs[i] # MsgUncaught
        /\ pc \in {"done", "crashed", "stopped"} => footer

\* C8: with aggregation None nothing is grouped and the custom chart is
\* built from the type-inferred table itself, with the selected x and y: the
\* same rows in the same order.
C8_NoAggregationPassThrough ==
    HandlerRan /\ agg = "None" =>
        /\ grouped = NoTable
        /\ Len(customCharts) = 1
        /\ customCharts[1].kind = PxKind(chart_type)
        /\ customCharts[1].x = x_axis
        /\ customCharts[1].y = y_axis
        /\ customCharts[1].data.columns = df.columns
        /\ \A c \in Range(df.columns) : \A i \in 1..NRows(Raw) :
              customCharts[1].data.data[c][i] = df.data[c][i]
        /\ NRows(customCharts[1].data) = NRows(Raw)
        /\ HandlerErrors = {}

\* A Pie chart has been built from a table of two different rows.
C8_Witness ==
    /\ pc = "done" /\ generate /\ agg = "None"
    /\ chart_type = "Pie"
    /\ Len(customCharts) = 1
    /\ NRows(df) = 2
    /\ \E c \in Range(df.columns) : df.data[c][1] # df.data[c][2]

\* The rows of t whose value in column d lies in [start, end]; a missing
\* value is in no range.
RangeFilter(t, d, start, end) ==
    LET keep == SelectSeq([i \in 1..NRows(t) |-> i],
                          LAMBDA i : /\ ~IsNa(t.data[d][i])
                                     /\ TextRank(start) <= TextRank(t.data[d][i].t)
                                     /\ TextRank(t.data[d][i].t) <= TextRank(end))
    IN  [t EXCEPT !.data = [c \in DOMAIN t.data |->
                              [i \in DOMAIN keep |-> t.data[c][keep[i]]]]]

\* The bounds of the specification's scenario.
ScenarioStart == "2023-01-02"
ScenarioEnd == "2023-01-03"

C10_SameAsTest12 ==
    pc \in {"done", "crashed", "stopped"} /\ ~grid_mode /\ agg = "None" =>
        LET r == T12_Run(uploaded_file, chart_type, x_axis, y_axis, generate)
        IN  /\ r.status = pc
            /\ r.msgs = msgs
            /\ r.preview = preview
            /\ r.df = df
            /\ r.numeric_cols = numeric_cols
            /\ r.datetime_cols = datetime_cols
            /\ r.categorical_cols = categorical_cols
            /\ r.autoCharts = autoCharts
            /\ r.customCharts = customCharts
            /\ r.footer = footer
            /\ Inferred =>
                  /\ x_axis \in Selectbox(r.df.columns)
                  /\ y_axis \in Selectbox(T12_YOptions(chart_type, r.numeric_cols,
                                                       r.df.columns))
                  /\ \A ct \in ChartTypes :
                        Selectbox(T12_YOptions(ct, r.numeric_cols, r.df.columns))
                        = Selectbox(YOptions(ct, "None", numeric_cols, df.columns))

\* Both auto-generated charts and a custom chart have been rendered with grid
\* mode off and aggregation None.
C10_Witness ==
    /\ pc = "done" /\ ~grid_mode /\ agg = "None" /\ generate
    /\ Len(autoCharts) = 2
    /\ Len(customCharts) = 1
    /\ datetime_cols = <<>>

====
